---- MODULE Spec2Model ----
(***************************************************************************)
(* Driver payments portal: the driver self-service portal                  *)
(* (streamlit_deploy/driver_portal.py) and the administrator search view   *)
(* (streamlit_deploy/app.py) over one table of trip-payment records.       *)
(*                                                                         *)
(* A Python string is a sequence of one-character strings.  A DataFrame is *)
(* a record [cols, rows]: the set of its column names and the sequence of  *)
(* its rows, each row a function from cols to cells.  A cell is a tagged   *)
(* value [t, v]: "int" (a number), "str" (a string), "date" (a Timestamp,  *)
(* v the day of March 2025), "NaT" (a date that did not parse), "nan".     *)
(* Python's None is the empty sequence <<>> and a present value x is <<x>>.*)
(***************************************************************************)
EXTENDS Integers, Sequences, FiniteSets, TLC

VARIABLES
    table,        \* the record store: what load_all_data() / load_data() returns
    logged_in,    \* st.session_state['logged_in']
    driver_data,  \* st.session_state['driver_data']: None or the scope DataFrame
    driver_name,  \* st.session_state['driver_name']
    date_range,   \* driver portal: value of the "Date Range" widget (0, 1 or 2 dates)
    trip_search,  \* driver portal: value of the "Search Trip ID" widget
    page,         \* driver portal: what the last script run put on the page
    auth_id,      \* history: the trimmed driver ID of the last successful login
    widgets,      \* admin view: the values of the seven search widgets
    report        \* admin view: what the last script run put on the page

vars == <<table, logged_in, driver_data, driver_name, date_range, trip_search,
          page, auth_id, widgets, report>>

\* ------------------------------------------------------------------ bounds

\* Longest record table the model loads.
MaxRows == 2

\* ------------------------------------------------------------ Python values

None == <<>>
Some(x) == <<x>>

IntCell(n) == [t |-> "int", v |-> n]
StrCell(s) == [t |-> "str", v |-> s]
DateCell(d) == [t |-> "date", v |-> d]
NaT == [t |-> "NaT", v |-> 0]
NaN == [t |-> "nan", v |-> 0]

sAll == <<"A", "l", "l">>
sDriver == <<"D", "r", "i", "v", "e", "r">>
sProcessed == <<"P", "r", "o", "c", "e", "s", "s", "e", "d">>
sPending == <<"P", "e", "n", "d", "i", "n", "g">>
sFailed == <<"F", "a", "i", "l", "e", "d">>

DigitChar(d) == <<"0", "1", "2", "3", "4", "5", "6", "7", "8", "9">>[d + 1]

RECURSIVE Digits(_)
Digits(n) == IF n < 10 THEN <<DigitChar(n)>>
             ELSE Digits(n \div 10) \o <<DigitChar(n % 10)>>

\* str(n) of a Python int.
IntToStr(n) == IF n < 0 THEN <<"-">> \o Digits(0 - n) ELSE Digits(n)

\* The '%Y-%m-%d' form of day d of March 2025 (also str() of the Timestamp's date).
DateToStr(d) == <<"2", "0", "2", "5", "-", "0", "3", "-">>
                \o (IF d < 10 THEN <<"0">> ELSE <<>>) \o Digits(d)

\* Series.astype(str), cell by cell.
astype_str(c) ==
    CASE c.t = "int" -> IntToStr(c.v)
      [] c.t = "str" -> c.v
      [] c.t = "date" -> DateToStr(c.v)
      [] c.t = "NaT" -> <<"N", "a", "T">>
      [] OTHER -> <<"n", "a", "n">>

IsSpace(ch) == ch = " "

RECURSIVE LStrip(_)
LStrip(s) == IF s # <<>> /\ IsSpace(Head(s)) THEN LStrip(Tail(s)) ELSE s

RECURSIVE RStrip(_)
RStrip(s) == IF s # <<>> /\ IsSpace(s[Len(s)]) THEN RStrip(SubSeq(s, 1, Len(s) - 1))
             ELSE s

\* str.strip()
strip(s) == RStrip(LStrip(s))

\* str.lower() on the letters the model uses.
LowerChar(ch) ==
    CASE ch = "A" -> "a"
      [] ch = "B" -> "b"
      [] ch = "C" -> "c"
      [] ch = "N" -> "n"
      [] ch = "P" -> "p"
      [] ch = "F" -> "f"
      [] ch = "T" -> "t"
      [] OTHER -> ch

Lower(s) == [i \in 1..Len(s) |-> LowerChar(s[i])]

\* Plain substring test (Python's `needle in text`).
IsSubstring(needle, text) ==
    \E i \in 1..(Len(text) - Len(needle) + 1) :
        \A k \in 1..Len(needle) : text[i + k - 1] = needle[k]

\* ---------------------------------------------------- Series.str.contains
\* str.contains(pat, case=..., na=False) compiles pat as a regular expression
\* (regex=True is the default) and keeps the cells where re.search finds it.
\* The patterns of the model are made of literal characters, "." (any
\* character) and "(" (an unterminated group: re.error when compiling).

RegexInvalid(pat) == \E k \in 1..Len(pat) : pat[k] = "("

RegexCharMatch(p, ch, ignore_case) ==
    \/ p = "."
    \/ p = ch
    \/ ignore_case /\ LowerChar(p) = LowerChar(ch)

str_contains(text, pat, ignore_case) ==
    \E i \in 1..(Len(text) - Len(pat) + 1) :
        \A k \in 1..Len(pat) : RegexCharMatch(pat[k], text[i + k - 1], ignore_case)

\* ------------------------------------------------------------- DataFrames

MoneyCols == {"total_paid", "total_fare", "coop_commission", "tips", "tolls",
              "base_fare", "wait_time_pay", "stops_amount", "cash_collected",
              "darter"}

AllCols == {"trip_id", "driver_num", "first_name", "last_name", "job_date",
            "status", "nacha_title", "account", "bank"} \cup MoneyCols

EmptyFrame == [cols |-> {}, rows |-> <<>>]

\* DataFrame.empty: no rows or no columns.
empty(df) == Len(df.rows) = 0 \/ df.cols = {}

\* df[mask]: the frame with the rows the mask keeps (in order), same columns.
WithRows(df, rows) == [cols |-> df.cols, rows |-> rows]

RowSet(df) == {df.rows[i] : i \in 1..Len(df.rows)}

RECURSIVE SumSeq(_, _)
SumSeq(rows, col) == IF rows = <<>> THEN 0
                     ELSE Head(rows)[col].v + SumSeq(Tail(rows), col)

\* df[col].sum() if col in df.columns else 0
sum_col(df, col) == IF col \in df.cols THEN SumSeq(df.rows, col) ELSE 0

\* Whether a sequence of rows is a subsequence (order kept) of another.
RECURSIVE IsSubSeq(_, _)
IsSubSeq(a, b) ==
    IF a = <<>> THEN TRUE
    ELSE IF b = <<>> THEN FALSE
    ELSE IF Head(a) = Head(b) THEN IsSubSeq(Tail(a), Tail(b))
    ELSE IsSubSeq(a, Tail(b))

\* --------------------------------------------------------- the record store
\* Rows as the cleaning step of load_all_data leaves them: job_date a Timestamp
\* or NaT, every money column a number, the other columns as the sheet gave them
\* (a number, or a string that may carry blanks).

Money(total_paid, total_fare, comm, tips, tolls, base, wait, stops, cash, darter) ==
    [total_paid |-> IntCell(total_paid), total_fare |-> IntCell(total_fare),
     coop_commission |-> IntCell(comm), tips |-> IntCell(tips),
     tolls |-> IntCell(tolls), base_fare |-> IntCell(base),
     wait_time_pay |-> IntCell(wait), stops_amount |-> IntCell(stops),
     cash_collected |-> IntCell(cash), darter |-> IntCell(darter)]

IsDigit(ch) == \E d \in 0..9 : DigitChar(d) = ch

RECURSIVE ParseDigits(_)
ParseDigits(s) ==
    IF s = <<>> THEN 0
    ELSE 10 * ParseDigits(SubSeq(s, 1, Len(s) - 1))
         + (CHOOSE d \in 0..9 : DigitChar(d) = s[Len(s)])

\* A sheet cell as get_all_records() hands it over: a text that int() accepts
\* (digits, blanks around them allowed, leading zeros dropped) becomes that
\* number, any other text stays the text it is. (No sample cell is a decimal.)
numericise(text) ==
    LET t == strip(text)
    IN IF t # <<>> /\ \A i \in 1..Len(t) : IsDigit(t[i])
       THEN IntCell(ParseDigits(t))
       ELSE StrCell(text)

\* The identifier columns of a record, from the sheet's cell texts; job_date as
\* pd.to_datetime(errors='coerce') leaves it.
Ident(trip, driver, first, last, date, status, nacha, account, bank) ==
    [trip_id |-> numericise(trip), driver_num |-> numericise(driver),
     first_name |-> numericise(first), last_name |-> numericise(last),
     job_date |-> date, status |-> numericise(status),
     nacha_title |-> numericise(nacha), account |-> numericise(account),
     bank |-> numericise(bank)]

MakeRow(ident, money) ==
    [c \in AllCols |-> IF c \in MoneyCols THEN money[c] ELSE ident[c]]

SampleRows == <<
    \* driver 58, bank 12: the components of the statement example (gross 20)
    MakeRow(Ident(<<"5", "1">>, <<"5", "8">>, <<"A", "l">>, <<"B">>,
                  DateCell(1), sProcessed, <<"N", "1">>, <<"a", "x">>,
                  <<"1", "2">>),
            Money(15, 20, 5, 4, 3, 10, 2, 1, 0, 0)),
    \* the same driver (typed with a trailing blank in the sheet), another bank
    \* account, and a negative deposit (cash collected exceeds the fare)
    MakeRow(Ident(<<"A", "1">>, <<"5", "8", " ">>, <<"A", "l">>, <<"B">>,
                  DateCell(2), sPending, <<"N", "2">>, <<"a", "x">>,
                  <<"9", "9">>),
            Money(0 - 3, 8, 2, 1, 0, 7, 0, 0, 9, 1)),
    \* another driver, whose ID is no number and carries a trailing blank; a
    \* numeric account; bank digits typed with a leading zero; unparseable date
    MakeRow(Ident(<<"1", "5">>, <<"a", "7", " ">>, <<"a", "l">>, <<"C">>,
                  NaT, sFailed, <<"N", "1">>, <<"7">>, <<"0", "7">>),
            Money(6, 7, 1, 0, 2, 5, 0, 0, 0, 0))
>>

\* The sheet's header row: every column; no money column at all; the columns
\* the code looks for before use (`in df.columns`) missing together; or one of
\* the columns it reads without looking missing.
Headers ==
    {AllCols, AllCols \ MoneyCols,
     AllCols \ {"account", "status", "first_name", "tips"}}
    \cup {AllCols \ {c} : c \in {"driver_num", "bank", "trip_id", "job_date",
                                "nacha_title"}}

Restrict(row, cols) == [c \in cols |-> row[c]]

\* The elements of seq at the positions in keep, in the order of seq.
RECURSIVE Pick(_, _, _)
Pick(seq, keep, n) ==
    IF n = 0 THEN <<>>
    ELSE IF n \in keep THEN Append(Pick(seq, keep, n - 1), seq[n])
    ELSE Pick(seq, keep, n - 1)

\* sheet.get_all_records(): up to MaxRows of the sample records, in sheet order.
SheetRecords ==
    {Pick(SampleRows, keep, Len(SampleRows)) :
        keep \in {k \in SUBSET (1..Len(SampleRows)) : Cardinality(k) <= MaxRows}}

\* pd.DataFrame(sheet.get_all_records()): no records give a frame without
\* columns; otherwise the header's columns and one row per record.
Tables ==
    {EmptyFrame} \cup
    {[cols |-> h, rows |-> [i \in 1..Len(rs) |-> Restrict(rs[i], h)]] :
        h \in Headers, rs \in SheetRecords \ {<<>>}}

\* ------------------------------------------------------------ driver portal

NoDataMsg == "No data found. Please try again later."
NotFoundMsg == "Driver ID not found."
BadPinMsg == "Incorrect Bank Account digits."

Rejected(msg) == [ok |-> FALSE, exc |-> "", msg |-> msg, user_df |-> None, name |-> <<>>]
Raised(exc) == [ok |-> FALSE, exc |-> exc, msg |-> "", user_df |-> None, name |-> <<>>]
Accepted(user_df, name) ==
    [ok |-> TRUE, exc |-> "", msg |-> "", user_df |-> Some(user_df), name |-> name]

\* The rows of df whose column col, as a trimmed string, equals the trimmed input.
MatchTrimmed(df, col, input) ==
    WithRows(df, SelectSeq(df.rows, LAMBDA r : strip(astype_str(r[col])) = strip(input)))

\* The rows login_screen keeps as the session's scope, given the rows of the
\* entered driver and those among them whose bank digits matched.
LoginScopeBankRows(df, user_df, valid_bank) == valid_bank

LoginScopeWholeTable(df, user_df, valid_bank) == df

LoginScope(df, user_df, valid_bank) == user_df

\* f"{first} {last}" of the scope's first row.
DriverName(user_df) ==
    LET first == IF "first_name" \in user_df.cols
                 THEN astype_str(user_df.rows[1]["first_name"]) ELSE sDriver
        last == IF "last_name" \in user_df.cols
                THEN astype_str(user_df.rows[1]["last_name"]) ELSE <<>>
    IN first \o <<" ">> \o last

\* login_screen() once the form is submitted: what it decides.
login_screen(df, driver_id_input, bank_pin_input) ==
    IF empty(df) THEN Rejected(NoDataMsg)
    ELSE IF "driver_num" \notin df.cols THEN Raised("KeyError")
    ELSE LET user_df == MatchTrimmed(df, "driver_num", driver_id_input)
         IN IF empty(user_df) THEN Rejected(NotFoundMsg)
            ELSE IF "bank" \notin user_df.cols THEN Raised("KeyError")
            ELSE LET valid_bank == MatchTrimmed(user_df, "bank", bank_pin_input)
                 IN IF ~empty(valid_bank)
                    THEN Accepted(LoginScope(df, user_df, valid_bank), DriverName(user_df))
                    ELSE Rejected(BadPinMsg)

\* The days of the non-null job_date cells of df.
ValidDays(df) == {df.rows[i]["job_date"].v :
                    i \in {j \in 1..Len(df.rows) : df.rows[j]["job_date"].t = "date"}}

AnyDay == {1, 2}

\* What st.date_input(value=[], min_value=min_date, max_value=max_date) can
\* return: nothing, a start alone, or an ordered pair within the bounds (no
\* bounds when every job_date is NaT).
DateInputs(df) ==
    LET days == IF ValidDays(df) = {} THEN AnyDay
                ELSE {d \in AnyDay : /\ \E lo \in ValidDays(df) : lo <= d
                                      /\ \E hi \in ValidDays(df) : d <= hi}
    IN {<<>>} \cup {<<s>> : s \in days}
       \cup {p \in days \X days : p[1] <= p[2]}

\* (df['job_date'].dt.date >= start_date) & (df['job_date'].dt.date <= end_date)
InDateRange(r, start_date, end_date) ==
    /\ r["job_date"].t = "date"
    /\ r["job_date"].v >= start_date
    /\ r["job_date"].v <= end_date

\* Whether a date_input value makes the script filter by date.
DateFilterApplies(range) == Len(range) = 2

date_filter_single_bound(df, range) ==
    IF Len(range) = 2
    THEN WithRows(df, SelectSeq(df.rows, LAMBDA r : InDateRange(r, range[1], range[2])))
    ELSE IF Len(range) = 1
    THEN WithRows(df, SelectSeq(df.rows, LAMBDA r : r["job_date"].t = "date" /\ r["job_date"].v >= range[1]))
    ELSE df

\* if len(date_range) == 2: ... df = df[mask]
date_filter(df, range) ==
    IF DateFilterApplies(range)
    THEN WithRows(df, SelectSeq(df.rows, LAMBDA r : InDateRange(r, range[1], range[2])))
    ELSE df

StatementGrossWithoutTips(df) ==
    LET sum_base == sum_col(df, "base_fare")
        sum_wait == sum_col(df, "wait_time_pay")
        sum_stops == sum_col(df, "stops_amount")
        sum_tolls == sum_col(df, "tolls")
        sum_tips == sum_col(df, "tips")
    IN [sum_base |-> sum_base, sum_wait |-> sum_wait, sum_stops |-> sum_stops,
        sum_tolls |-> sum_tolls, sum_tips |-> sum_tips,
        sum_comm |-> sum_col(df, "coop_commission"),
        sum_cash |-> sum_col(df, "cash_collected"),
        gross_fare |-> sum_base + sum_wait + sum_stops + sum_tolls,
        net_deposit |-> sum_col(df, "total_paid"),
        trips |-> Len(df.rows)]

\* The Payment Statement of dashboard().
Statement(df) ==
    LET sum_base == sum_col(df, "base_fare")
        sum_wait == sum_col(df, "wait_time_pay")
        sum_stops == sum_col(df, "stops_amount")
        sum_tolls == sum_col(df, "tolls")
        sum_tips == sum_col(df, "tips")
    IN [sum_base |-> sum_base, sum_wait |-> sum_wait, sum_stops |-> sum_stops,
        sum_tolls |-> sum_tolls, sum_tips |-> sum_tips,
        sum_comm |-> sum_col(df, "coop_commission"),
        sum_cash |-> sum_col(df, "cash_collected"),
        gross_fare |-> sum_base + sum_wait + sum_stops + sum_tolls + sum_tips,
        net_deposit |-> sum_col(df, "total_paid"),
        trips |-> Len(df.rows)]

\* Series.dt.strftime('%Y-%m-%d'), cell by cell.
strftime(c) == IF c.t = "date" THEN StrCell(DateToStr(c.v)) ELSE NaN

\* frame['job_date'] = frame['job_date'].dt.strftime('%Y-%m-%d')
FormatJobDate(df) ==
    [cols |-> df.cols,
     rows |-> [i \in 1..Len(df.rows) |->
                 [c \in df.cols |-> IF c = "job_date" THEN strftime(df.rows[i][c])
                                    ELSE df.rows[i][c]]]]

hide_cols == {"nacha_title", "bank", "routing", "account", "driver_num",
              "first_name", "last_name", "full_name"}

\* rename(columns={'status': 'Payment Status'})
RenameStatus(df) ==
    IF "status" \notin df.cols THEN df
    ELSE LET cols == (df.cols \ {"status"}) \cup {"Payment Status"}
         IN [cols |-> cols,
             rows |-> [i \in 1..Len(df.rows) |->
                         [c \in cols |-> IF c = "Payment Status" THEN df.rows[i]["status"]
                                         ELSE df.rows[i][c]]]]

DropCols(df, drop) ==
    [cols |-> df.cols \ drop,
     rows |-> [i \in 1..Len(df.rows) |-> Restrict(df.rows[i], df.cols \ drop)]]

\* display_df of dashboard(): dates formatted, private columns dropped, status renamed.
DisplayFrame(df) ==
    RenameStatus(DropCols(IF "job_date" \in df.cols THEN FormatJobDate(df) ELSE df,
                          hide_cols))

\* Python object identity: whether the frame bound by `x = df.copy()` is the
\* very object df is (shares: whether df is the stored frame). A copy never is.
assignment_is_same_object(shares) == shares

copy_is_same_object(shares) == FALSE

Crashed(exc, session_df) ==
    [exc |-> exc, shown |-> None, statement |-> None, display |-> None,
     widgets_drawn |-> exc # "KeyError:job_date", stored |-> session_df]

\* dashboard() below the Log Out button, on the session's scope df with the
\* widget values range and search.
dashboard(df, range, search) ==
    IF "job_date" \notin df.cols THEN Crashed("KeyError:job_date", df)
    ELSE LET by_date == date_filter(df, range)
         IN IF search # <<>> /\ "trip_id" \notin by_date.cols
            THEN Crashed("KeyError:trip_id", df)
            ELSE IF search # <<>> /\ RegexInvalid(search) THEN Crashed("re.error", df)
            ELSE LET found == IF search # <<>>
                              THEN WithRows(by_date, SelectSeq(by_date.rows, LAMBDA r :
                                     str_contains(astype_str(r["trip_id"]), search, FALSE)))
                              ELSE by_date
                     own == ~DateFilterApplies(range) /\ search = <<>>
                 IN [exc |-> "", shown |-> Some(found),
                     statement |-> Some(Statement(found)),
                     display |-> Some(DisplayFrame(found)),
                     widgets_drawn |-> TRUE,
                     stored |-> IF copy_is_same_object(own) /\ "job_date" \in df.cols
                                THEN FormatJobDate(df) ELSE df]

LoginPage(msg, exc) ==
    [screen |-> "login", msg |-> msg, exc |-> exc, shown |-> None,
     statement |-> None, display |-> None, widgets_drawn |-> FALSE]

DashboardPage(d) ==
    [screen |-> "dashboard", msg |-> "", exc |-> d.exc, shown |-> d.shown,
     statement |-> d.statement, display |-> d.display,
     widgets_drawn |-> d.widgets_drawn]

IdInputs == {<<"5", "8">>, <<" ", "5", "8", " ">>, <<"a", "7">>, <<"0", "0">>, <<>>}
PinInputs == {<<"1", "2">>, <<"1", "2", " ">>, <<"9", "9">>, <<"0", "7">>, <<"7">>}
TripSearches == {<<>>, <<"1">>, <<"a">>, <<".", "5">>, <<"(">>}

AdminIdle ==
    /\ widgets = None
    /\ report = None

\* A dashboard run that reads its rows from the record store again.
RunDashboardFromStore(range, search) ==
    LET df == IF "driver_num" \in table.cols
              THEN MatchTrimmed(table, "driver_num", auth_id[1]) ELSE table
        d == dashboard(df, range, search)
    IN /\ page' = DashboardPage(d)
       /\ driver_data' = Some(d.stored)
       /\ date_range' = range
       /\ trip_search' = search

\* One dashboard run of a logged-in session with the given widget values.
RunDashboard(range, search) ==
    LET d == dashboard(driver_data[1], range, search)
    IN /\ page' = DashboardPage(d)
       /\ driver_data' = Some(d.stored)
       /\ date_range' = range
       /\ trip_search' = search

\* The "Log In" button: login_screen() and, when it accepts, the rerun that
\* draws the dashboard with its widgets at their defaults.
SubmitLogin(driver_id_input, bank_pin_input) ==
    /\ ~logged_in
    /\ LET out == login_screen(table, driver_id_input, bank_pin_input)
       IN IF out.ok
          THEN LET d == dashboard(out.user_df[1], <<>>, <<>>)
               IN /\ logged_in' = TRUE
                  /\ driver_name' = out.name
                  /\ auth_id' = Some(strip(driver_id_input))
                  /\ page' = DashboardPage(d)
                  /\ driver_data' = Some(d.stored)
                  /\ date_range' = <<>>
                  /\ trip_search' = <<>>
          ELSE /\ page' = LoginPage(out.msg, out.exc)
               /\ UNCHANGED <<logged_in, driver_data, driver_name, auth_id,
                              date_range, trip_search>>
    /\ UNCHANGED <<table, widgets, report>>

\* The driver picks dates in the "Date Range" widget: the script reruns.
ChangeDateRange(range) ==
    /\ logged_in
    /\ page.widgets_drawn
    /\ range \in DateInputs(driver_data[1])
    /\ range # date_range
    /\ RunDashboard(range, trip_search)
    /\ UNCHANGED <<table, logged_in, driver_name, auth_id, widgets, report>>

\* The driver edits "Search Trip ID": the script reruns.
ChangeTripSearch(search) ==
    /\ logged_in
    /\ page.widgets_drawn
    /\ search # trip_search
    /\ RunDashboard(date_range, search)
    /\ UNCHANGED <<table, logged_in, driver_name, auth_id, widgets, report>>

LogoutKeepsScope ==
    /\ logged_in
    /\ logged_in' = FALSE
    /\ page' = LoginPage("", "")
    /\ UNCHANGED <<table, driver_data, driver_name, auth_id, date_range,
                   trip_search, widgets, report>>

\* The "Log Out" button, and the rerun that draws the login form.
Logout ==
    /\ logged_in
    /\ logged_in' = FALSE
    /\ driver_data' = None
    /\ auth_id' = None
    /\ date_range' = <<>>
    /\ trip_search' = <<>>
    /\ page' = LoginPage("", "")
    /\ UNCHANGED <<table, driver_name, widgets, report>>

\* The first script run of a new browser session: session state set up, the
\* login form drawn.
InitPortal ==
    /\ table \in Tables
    /\ logged_in = FALSE
    /\ driver_data = None
    /\ driver_name = <<>>
    /\ auth_id = None
    /\ date_range = <<>>
    /\ trip_search = <<>>
    /\ page = LoginPage("", "")
    /\ AdminIdle

NextPortal ==
    \/ \E i \in IdInputs, p \in PinInputs : SubmitLogin(i, p)
    \/ \E range \in DateInputs(EmptyFrame) : ChangeDateRange(range)
    \/ \E search \in TripSearches : ChangeTripSearch(search)
    \/ Logout

SpecPortal == InitPortal /\ [][NextPortal]_vars

\* The record store under a running session: the frame load_all_data() returns
\* once its cache entry (ttl=600) has expired, whatever the sheet then holds
\* (records or columns added, removed or changed; the empty frame of the except
\* branch when the sheet cannot be opened; records again once it can). Nothing
\* in the session state is touched: load_all_data() is called by login_screen()
\* only.
RefreshStore(new) ==
    /\ new \in Tables
    /\ new # table
    /\ table' = new
    /\ UNCHANGED <<logged_in, driver_data, driver_name, auth_id, date_range,
                   trip_search, page, widgets, report>>

NextSession ==
    \/ NextPortal
    \/ \E new \in Tables : RefreshStore(new)

SpecSession == InitPortal /\ [][NextSession]_vars

\* --------------------------------------------------------------- admin view

\* Most search widgets the administrator has away from their defaults at once.
MaxFilters == 2

DefaultWidgets ==
    [search_name |-> <<>>, search_driver_id |-> <<>>, search_trip_id |-> <<>>,
     search_nacha |-> sAll, search_account |-> sAll, search_status |-> sAll,
     date_range |-> <<>>]

WidgetNames == DOMAIN DefaultWidgets

TextWidgets == {"search_name", "search_driver_id", "search_trip_id"}

\* ["All"] + sorted(list(df[col].astype(str).unique())), as a set.
Options(df, col) == {sAll} \cup {astype_str(df.rows[i][col]) : i \in 1..Len(df.rows)}

NameSearches == {<<>>, <<"a", "l">>, <<"1">>}
DriverIdSearches == {<<>>, <<"5">>, <<"a">>}

\* The state of the filtering section: filtered_df, the loaded frame df, whether
\* filtered_df is the very object df is, and the exception raised, if any.
Filtering(df, loaded, same) == [exc |-> "", df |-> df, loaded |-> loaded, same |-> same]

Fail(f, exc) == [f EXCEPT !.exc = exc]

\* filtered_df['full_name'] = first_name.astype(str) + " " + last_name.astype(str)
AddFullName(df) ==
    [cols |-> df.cols \cup {"full_name"},
     rows |-> [i \in 1..Len(df.rows) |->
                 [c \in df.cols \cup {"full_name"} |->
                    IF c = "full_name"
                    THEN StrCell(astype_str(df.rows[i]["first_name"]) \o <<" ">>
                                 \o astype_str(df.rows[i]["last_name"]))
                    ELSE df.rows[i][c]]]]

\* if search_name: ... (app.py lines 111-118)
name_filter(f, search_name) ==
    IF f.exc # "" \/ search_name = <<>> THEN f
    ELSE IF {"first_name", "last_name"} \subseteq f.df.cols
    THEN LET named == AddFullName(f.df)
             g == [f EXCEPT !.df = named,
                            !.loaded = IF f.same THEN named ELSE f.loaded]
         IN IF RegexInvalid(search_name) THEN Fail(g, "re.error")
            ELSE [g EXCEPT !.same = FALSE,
                           !.df = WithRows(named, SelectSeq(named.rows, LAMBDA r :
                                    str_contains(r["full_name"].v, search_name, TRUE)))]
    ELSE IF RegexInvalid(search_name) THEN Fail(f, "re.error")
    ELSE [f EXCEPT !.same = FALSE,
                   !.df = WithRows(f.df, SelectSeq(f.df.rows, LAMBDA r :
                            \E c \in f.df.cols :
                                str_contains(astype_str(r[c]), search_name, TRUE)))]

\* if search: filtered_df = filtered_df[filtered_df[col].astype(str).str.contains(search, na=False)]
contains_filter(f, col, search, key_error) ==
    IF f.exc # "" \/ search = <<>> THEN f
    ELSE IF col \notin f.df.cols THEN Fail(f, key_error)
    ELSE IF RegexInvalid(search) THEN Fail(f, "re.error")
    ELSE [f EXCEPT !.same = FALSE,
                   !.df = WithRows(f.df, SelectSeq(f.df.rows, LAMBDA r :
                            str_contains(astype_str(r[col]), search, FALSE)))]

exact_filter_of_loaded(f, col, choice, guarded, key_error) ==
    IF f.exc # "" \/ choice = sAll THEN f
    ELSE IF col \notin f.loaded.cols THEN (IF guarded THEN f ELSE Fail(f, key_error))
    ELSE [f EXCEPT !.same = FALSE,
                   !.df = WithRows(f.loaded, SelectSeq(f.loaded.rows, LAMBDA r : astype_str(r[col]) = choice))]

\* if choice != "All" [and col in filtered_df.columns]:
\*     filtered_df = filtered_df[filtered_df[col].astype(str) == choice]
exact_filter(f, col, choice, guarded, key_error) ==
    IF f.exc # "" \/ choice = sAll THEN f
    ELSE IF col \notin f.df.cols THEN (IF guarded THEN f ELSE Fail(f, key_error))
    ELSE [f EXCEPT !.same = FALSE,
                   !.df = WithRows(f.df, SelectSeq(f.df.rows, LAMBDA r : astype_str(r[col]) = choice))]

\* if len(date_range) == 2: ... (app.py lines 136-139)
admin_date_filter(f, range) ==
    IF f.exc # "" THEN f
    ELSE [f EXCEPT !.same = f.same /\ ~DateFilterApplies(range),
                   !.df = date_filter(f.df, range)]

\* The FILTERING LOGIC section of app.py, from df.copy() to the date filter.
filtering_logic(df, w) ==
    LET f0 == Filtering(df, df, copy_is_same_object(TRUE))
        f1 == name_filter(f0, w.search_name)
        f2 == contains_filter(f1, "driver_num", w.search_driver_id, "KeyError:driver_num")
        f3 == contains_filter(f2, "trip_id", w.search_trip_id, "KeyError:trip_id")
        f4 == exact_filter(f3, "nacha_title", w.search_nacha, FALSE, "KeyError:nacha_title")
        f5 == exact_filter(f4, "account", w.search_account, TRUE, "KeyError:account")
        f6 == exact_filter(f5, "status", w.search_status, FALSE, "KeyError:status")
    IN admin_date_filter(f6, w.date_range)

\* The FINANCIAL SUB-TOTALS section of app.py.
financial_subtotals(df) ==
    [total_paid_sum |-> sum_col(df, "total_paid"),
     total_comm_sum |-> sum_col(df, "coop_commission"),
     total_tips_sum |-> sum_col(df, "tips"),
     total_tolls_sum |-> sum_col(df, "tolls")]

Report(stopped, exc, drawn, filtered, sums, display, loaded) ==
    [stopped |-> stopped, exc |-> exc, drawn |-> drawn, filtered |-> filtered,
     sums |-> sums, display |-> display, loaded |-> loaded]

\* The widgets a run of app.py on df reaches: none when it stops on an empty
\* frame, those above the statement that raises when a column read without a
\* guard is missing (lines 81 and 97); the Account and Payment Status
\* selectboxes only when the frame has their column (lines 84 and 90).
WidgetsDrawn(df) ==
    IF empty(df) THEN {}
    ELSE IF "nacha_title" \notin df.cols THEN TextWidgets
    ELSE (IF "job_date" \notin df.cols THEN WidgetNames \ {"date_range"}
          ELSE WidgetNames)
         \ ((IF "account" \in df.cols THEN {} ELSE {"search_account"})
            \cup (IF "status" \in df.cols THEN {} ELSE {"search_status"}))

\* One run of app.py on the loaded table df with the widget values w.
app_run(df, w) ==
    IF empty(df) THEN Report(TRUE, "", WidgetsDrawn(df), None, None, None, df)
    ELSE IF "nacha_title" \notin df.cols
    THEN Report(FALSE, "KeyError:nacha_title", WidgetsDrawn(df), None, None, None, df)
    ELSE IF "job_date" \notin df.cols
    THEN Report(FALSE, "KeyError:job_date", WidgetsDrawn(df),
                None, None, None, df)
    ELSE LET f == filtering_logic(df, w)
         IN IF f.exc # ""
            THEN Report(FALSE, f.exc, WidgetsDrawn(df), None, None, None, f.loaded)
            ELSE Report(FALSE, "", WidgetsDrawn(df), Some(f.df),
                        Some(financial_subtotals(f.df)),
                        Some(RenameStatus(FormatJobDate(f.df))),
                        IF f.same THEN FormatJobDate(f.loaded) ELSE f.loaded)

Active(w) == {n \in WidgetNames : w[n] # DefaultWidgets[n]}

\* The administrator changes widget name to value: the script reruns with the
\* other widgets as they were; the cached table is handed out as a fresh copy.
Rerun(name, value) ==
    /\ value # widgets[name]
    /\ LET w == [widgets EXCEPT ![name] = value]
       IN /\ Cardinality(Active(w)) <= MaxFilters
          /\ widgets' = w
          /\ report' = app_run(table, w)
    /\ UNCHANGED <<table, logged_in, driver_data, driver_name, date_range,
                   trip_search, page, auth_id>>

TypeDriverName(text) ==
    /\ "search_name" \in report.drawn
    /\ Rerun("search_name", text)

TypeDriverId(text) ==
    /\ "search_driver_id" \in report.drawn
    /\ Rerun("search_driver_id", text)

TypeTripId(text) ==
    /\ "search_trip_id" \in report.drawn
    /\ Rerun("search_trip_id", text)

PickNacha(choice) ==
    /\ "search_nacha" \in report.drawn
    /\ choice \in Options(table, "nacha_title")
    /\ Rerun("search_nacha", choice)

PickAccount(choice) ==
    /\ "search_account" \in report.drawn
    /\ "account" \in table.cols
    /\ choice \in Options(table, "account")
    /\ Rerun("search_account", choice)

PickStatus(choice) ==
    /\ "search_status" \in report.drawn
    /\ "status" \in table.cols
    /\ choice \in Options(table, "status")
    /\ Rerun("search_status", choice)

PickDates(range) ==
    /\ "date_range" \in report.drawn
    /\ range \in DateInputs(table)
    /\ Rerun("date_range", range)

\* min_date, max_date of app.py lines 97-98: the bounds handed to st.date_input.
DateBounds(df) ==
    IF "job_date" \notin df.cols \/ ValidDays(df) = {} THEN None
    ELSE <<CHOOSE lo \in ValidDays(df) : \A d \in ValidDays(df) : lo <= d,
           CHOOSE hi \in ValidDays(df) : \A d \in ValidDays(df) : d <= hi>>

\* The column a selectbox takes its options from.
WidgetCol(name) ==
    CASE name = "search_nacha" -> "nacha_title"
      [] name = "search_account" -> "account"
      [] name = "search_status" -> "status"

\* Widget values of a rerun that loads the frame new after a run on old. The
\* widgets have no key: a widget is the same widget, and keeps its value, when
\* it is drawn with the same arguments (a text input always, a selectbox with
\* the same options, the date input with the same bounds); otherwise it is a
\* new widget at its default. A widget the run does not draw loses its value.
KeptWidgets(old, new, w, drawn) ==
    [n \in WidgetNames |->
       IF n \notin drawn THEN DefaultWidgets[n]
       ELSE IF n \in TextWidgets THEN w[n]
       ELSE IF n = "date_range"
       THEN IF "job_date" \in old.cols /\ DateBounds(old) = DateBounds(new)
            THEN w[n] ELSE DefaultWidgets[n]
       ELSE IF /\ WidgetCol(n) \in old.cols
               /\ WidgetCol(n) \in new.cols
               /\ Options(old, WidgetCol(n)) = Options(new, WidgetCol(n))
            THEN w[n] ELSE DefaultWidgets[n]]

\* A rerun of app.py after the cache entry of load_data() (ttl=600) has expired:
\* load_data() reads the sheet again and returns new, whatever the sheet then
\* holds (the empty frame when it has no records). The widget actions above are
\* the reruns within the ttl, which get the cached frame; a widget edited in the
\* very run that reloads ends in the state of this step followed by that
\* widget's step.
ReloadData(new) ==
    /\ new \in Tables
    /\ new # table
    /\ LET w == KeptWidgets(table, new, widgets, WidgetsDrawn(new))
       IN /\ widgets' = w
          /\ report' = app_run(new, w)
    /\ table' = new
    /\ UNCHANGED <<logged_in, driver_data, driver_name, date_range,
                   trip_search, page, auth_id>>

PortalIdle ==
    /\ logged_in = FALSE
    /\ driver_data = None
    /\ driver_name = <<>>
    /\ auth_id = None
    /\ date_range = <<>>
    /\ trip_search = <<>>
    /\ page = LoginPage("", "")

\* The first run of app.py in a new browser session.
InitAdmin ==
    /\ table \in Tables
    /\ widgets = DefaultWidgets
    /\ report = app_run(table, DefaultWidgets)
    /\ PortalIdle

SelectChoices == {sAll} \cup {astype_str(SampleRows[i][c]) : i \in 1..Len(SampleRows),
                                                 c \in {"nacha_title", "account", "status"}}

NextAdmin ==
    \/ \E text \in NameSearches : TypeDriverName(text)
    \/ \E text \in DriverIdSearches : TypeDriverId(text)
    \/ \E text \in TripSearches : TypeTripId(text)
    \/ \E choice \in SelectChoices : PickNacha(choice)
    \/ \E choice \in SelectChoices : PickAccount(choice)
    \/ \E choice \in SelectChoices : PickStatus(choice)
    \/ \E range \in DateInputs(EmptyFrame) : PickDates(range)
    \/ \E new \in Tables : ReloadData(new)

SpecAdmin == InitAdmin /\ [][NextAdmin]_vars

\* ------------------------------------------------------------------ claims
\* Identifiers are compared as the code compares them: the stored cell's string
\* form with surrounding blanks removed against the input with surrounding
\* blanks removed.

SameId(cell, input) == strip(astype_str(cell)) = strip(input)

\* Positions of the table's records whose column col equals the input.
Matching(df, col, input) ==
    IF col \in df.cols THEN {i \in 1..Len(df.rows) : SameId(df.rows[i][col], input)}
    ELSE {}

\* C1: a login from the Unauthenticated state succeeds exactly when some record
\* has the entered driver ID and some record of that driver has the entered
\* bank digits; the session then is Authenticated and its scope is all the
\* records of that driver, in table order, whatever their bank value.
C1_LoginIffIdAndBank ==
    [][\A i \in IdInputs, p \in PinInputs :
         SubmitLogin(i, p) =>
           LET mine == Matching(table, "driver_num", i)
               gate == mine \cap Matching(table, "bank", p)
           IN /\ logged_in' <=> (mine # {} /\ gate # {})
              /\ logged_in' =>
                   /\ driver_data' # None
                   /\ driver_data'[1].cols = table.cols
                   /\ Len(driver_data'[1].rows) = Cardinality(mine)
                   /\ IsSubSeq(driver_data'[1].rows, table.rows)
                   /\ RowSet(driver_data'[1]) = {table.rows[k] : k \in mine}]_vars

\* A session whose scope holds two rows with different bank digits: one of
\* them did not match the PIN that opened the session.
C1_Witness ==
    /\ logged_in
    /\ "bank" \in driver_data[1].cols
    /\ \E r1, r2 \in RowSet(driver_data[1]) :
          strip(astype_str(r1["bank"])) # strip(astype_str(r2["bank"]))

\* C2: a failed login is a rejection with its reason ("Driver ID not found"
\* when no record has the ID, "Incorrect Bank Account digits" when the ID is
\* there and the digits are not, a rejection too on an empty table), leaves the
\* session Unauthenticated without scope, and raises nothing.
C2_FailedLoginIsRejection ==
    [][\A i \in IdInputs, p \in PinInputs :
         (SubmitLogin(i, p) /\ ~logged_in') =>
           /\ page'.exc = ""
           /\ page'.screen = "login"
           /\ page'.msg # ""
           /\ (~empty(table) /\ Matching(table, "driver_num", i) = {})
                 => page'.msg = NotFoundMsg
           /\ (~empty(table) /\ Matching(table, "driver_num", i) # {})
                 => page'.msg = BadPinMsg
           /\ driver_data' = None
           /\ UNCHANGED <<logged_in, driver_data, driver_name>>]_vars

\* C3: logging out is possible in every Authenticated state, and it leaves the
\* session Unauthenticated with no scope and the login form on the page; an
\* Unauthenticated session never holds a scope.
C3_LogoutClearsScope ==
    /\ [](logged_in => ENABLED Logout)
    /\ [](~logged_in => driver_data = None /\ page.screen = "login")
    /\ [][(logged_in /\ ~logged_in') =>
            /\ driver_data' = None
            /\ page' = LoginPage("", "")]_vars

\* A session that was Authenticated (its driver name is remembered) and has
\* logged out.
C3_Witness ==
    /\ ~logged_in
    /\ driver_name # <<>>
    /\ driver_data = None

\* C4: the rows of the statement and of the trip list are records of the driver
\* whose ID opened the session, and the statement is the one of those rows;
\* nothing is summed or listed while Unauthenticated.
C4_ScopeIsolation ==
    /\ ~logged_in =>
         page.shown = None /\ page.statement = None /\ page.display = None
    /\ (logged_in /\ page.shown # None) =>
         /\ auth_id # None
         /\ "driver_num" \in page.shown[1].cols
         /\ \A r \in RowSet(page.shown[1]) :
               /\ r \in RowSet(table)
               /\ SameId(r["driver_num"], auth_id[1])
         /\ page.statement = Some(Statement(page.shown[1]))
         /\ Len(page.display[1].rows) = Len(page.shown[1].rows)

\* A filtered dashboard that lists rows while the table holds another driver's.
C4_Witness ==
    /\ logged_in
    /\ page.shown # None
    /\ page.shown[1].rows # <<>>
    /\ DateFilterApplies(date_range)
    /\ trip_search # <<>>
    /\ \E r \in RowSet(table) : ~SameId(r["driver_num"], auth_id[1])

KeyErrors == {"KeyError", "KeyError:nacha_title", "KeyError:job_date",
              "KeyError:driver_num", "KeyError:trip_id", "KeyError:account",
              "KeyError:status"}

\* The rows of a frame without the helper column the name filter adds.
Core(df) == [i \in 1..Len(df.rows) |-> Restrict(df.rows[i], df.cols \ {"full_name"})]

\* C5: filtering a table that lacks a column a criterion refers to never
\* fails: no run raises on an absent column, and a substring criterion on an
\* absent driver_num or trip_id column is skipped (the result is the one
\* without that criterion).
C5_AbsentColumnsNeverFail ==
    /\ report.exc \notin KeyErrors
    /\ \A n \in {"search_driver_id", "search_trip_id"} :
          LET col == IF n = "search_driver_id" THEN "driver_num" ELSE "trip_id"
          IN (~report.stopped /\ col \notin table.cols /\ ~RegexInvalid(widgets[n]))
               => report.filtered =
                    app_run(table, [widgets EXCEPT ![n] = <<>>]).filtered

\* C6: the driver-ID and trip-ID searches keep a record exactly when the
\* lower-cased search text occurs inside the lower-cased string form of the
\* identifier, for every record and every search text.
C6_IdSearchIgnoresCase ==
    \A n \in {"search_driver_id", "search_trip_id"} :
       LET col == IF n = "search_driver_id" THEN "driver_num" ELSE "trip_id"
       IN (Active(widgets) = {n} /\ {col, "nacha_title", "job_date"} \subseteq table.cols)
            => /\ report.filtered # None
               /\ report.filtered[1].rows =
                    SelectSeq(table.rows, LAMBDA r :
                        IsSubstring(Lower(widgets[n]), Lower(astype_str(r[col]))))

\* Whether only the date range differs between two widget settings.
OnlyDatesDiffer(w1, w2) == \A n \in WidgetNames \ {"date_range"} : w1[n] = w2[n]

\* C7: with no criteria the filter returns the table as loaded (same rows, same
\* order, same columns); a date range with a single bound filters nothing (the
\* result is the one without a date range, whatever the other criteria); a range
\* with both bounds keeps exactly the rows whose job_date lies in [start, end].
C7_NoCriteriaAndSingleBound ==
    /\ []((widgets = DefaultWidgets /\ report.filtered # None)
            => report.filtered[1] = table)
    /\ [][(table' = table /\ OnlyDatesDiffer(widgets, widgets')
             /\ Len(widgets.date_range) = 0 /\ report.filtered # None) =>
            /\ report'.filtered # None
            /\ report'.filtered[1].cols = report.filtered[1].cols
            /\ IF Len(widgets'.date_range) = 2
               THEN report'.filtered[1].rows =
                      SelectSeq(report.filtered[1].rows, LAMBDA r :
                          /\ r["job_date"].t = "date"
                          /\ widgets'.date_range[1] <= r["job_date"].v
                          /\ r["job_date"].v <= widgets'.date_range[2])
               ELSE report'.filtered[1].rows = report.filtered[1].rows]_vars

\* A run with only a start date picked, beside another criterion, that still
\* lists a row dated before that start.
C7_Witness ==
    /\ Len(widgets.date_range) = 1
    /\ Cardinality(Active(widgets)) = 2
    /\ report.filtered # None
    /\ \E r \in RowSet(report.filtered[1]) :
          r["job_date"].t = "date" /\ r["job_date"].v < widgets.date_range[1]

\* Whether w2 keeps every criterion of w1 and only adds criteria.
Narrows(w1, w2) == \A n \in WidgetNames : w1[n] = DefaultWidgets[n] \/ w2[n] = w1[n]

NonNegative(df, col) ==
    col \in df.cols => \A i \in 1..Len(df.rows) : df.rows[i][col].v >= 0

GrossCols == {"base_fare", "wait_time_pay", "stops_amount", "tolls", "tips"}

\* C8 as claimed: adding criteria returns a subset of the rows, and every
\* monetary sum and the trip count over the narrowed rows is no greater than
\* over the wider rows.
C8_NarrowingLowersEverySum ==
    [][(table' = table /\ Narrows(widgets, widgets')
          /\ report.filtered # None /\ report'.filtered # None) =>
         LET wide == report.filtered[1]
             narrow == report'.filtered[1]
         IN /\ IsSubSeq(Core(narrow), Core(wide))
            /\ Statement(narrow).trips <= Statement(wide).trips
            /\ \A k \in DOMAIN report.sums[1] : report'.sums[1][k] <= report.sums[1][k]
            /\ \A k \in DOMAIN Statement(wide) : Statement(narrow)[k] <= Statement(wide)[k]]_vars

\* C8, amended: adding criteria returns a subset of the rows (of the wider
\* result and of the table) and a trip count no greater; a monetary sum is no
\* greater when no amount of that column in the wider rows is negative (gross
\* fare: when none of its five components is).
C8_NarrowingLowersNonNegativeSums ==
    /\ [](report.filtered # None => IsSubSeq(Core(report.filtered[1]), table.rows))
    /\ [][(table' = table /\ Narrows(widgets, widgets')
             /\ report.filtered # None /\ report'.filtered # None) =>
            LET wide == report.filtered[1]
                narrow == report'.filtered[1]
                Sum(df) == [total_paid |-> financial_subtotals(df).total_paid_sum,
                            coop_commission |-> financial_subtotals(df).total_comm_sum,
                            tips |-> financial_subtotals(df).total_tips_sum,
                            tolls |-> financial_subtotals(df).total_tolls_sum]
                Paid(df) == [base_fare |-> Statement(df).sum_base,
                             wait_time_pay |-> Statement(df).sum_wait,
                             stops_amount |-> Statement(df).sum_stops,
                             tolls |-> Statement(df).sum_tolls,
                             tips |-> Statement(df).sum_tips,
                             coop_commission |-> Statement(df).sum_comm,
                             cash_collected |-> Statement(df).sum_cash,
                             total_paid |-> Statement(df).net_deposit]
            IN /\ IsSubSeq(Core(narrow), Core(wide))
               /\ Statement(narrow).trips <= Statement(wide).trips
               /\ report'.sums = Some(financial_subtotals(narrow))
               /\ \A c \in DOMAIN Sum(wide) :
                     NonNegative(wide, c) => Sum(narrow)[c] <= Sum(wide)[c]
               /\ \A c \in DOMAIN Paid(wide) :
                     NonNegative(wide, c) => Paid(narrow)[c] <= Paid(wide)[c]
               /\ (\A c \in GrossCols : NonNegative(wide, c))
                     => Statement(narrow).gross_fare <= Statement(wide).gross_fare]_vars

\* Two criteria at once that keep some rows of the table and drop others.
C8_Witness ==
    /\ Cardinality(Active(widgets) \ {"date_range"}) = 2
    /\ report.filtered # None
    /\ Len(report.filtered[1].rows) > 0
    /\ Len(report.filtered[1].rows) < Len(table.rows)

\* Widget settings of the admin view with at most one criterion set.
AdminProbes(df) ==
    {DefaultWidgets}
    \cup {[DefaultWidgets EXCEPT !.search_name = x] : x \in NameSearches}
    \cup {[DefaultWidgets EXCEPT !.search_trip_id = x] : x \in TripSearches}
    \cup {[DefaultWidgets EXCEPT !.date_range = x] :
            x \in IF "job_date" \in df.cols THEN DateInputs(df) ELSE {}}

\* C9: no run changes the stored data. The session's scope stays what the login
\* stored, whatever filters the dashboard applies and however it prepares the
\* display, so the dashboard without filters shows the driver's full set again;
\* and a run of the admin view leaves the table it loaded as it was (name
\* filter, date formatting and status renaming included).
C9_FilteringKeepsTheStore ==
    /\ [][table' = table /\ ((logged_in /\ logged_in') => driver_data' = driver_data)]_vars
    /\ []((logged_in /\ page.shown # None /\ ~DateFilterApplies(date_range)
             /\ trip_search = <<>>)
            => /\ page.shown = driver_data
               /\ driver_data[1].cols = table.cols
               /\ driver_data[1].rows =
                    SelectSeq(table.rows, LAMBDA r : SameId(r["driver_num"], auth_id[1])))
    /\ []((~logged_in /\ driver_name = <<>>)
            => \A w \in AdminProbes(table) : app_run(table, w).loaded = table)

\* A dashboard whose date filter hides rows the session still holds.
C9_Witness ==
    /\ logged_in
    /\ DateFilterApplies(date_range)
    /\ page.shown # None
    /\ Len(page.shown[1].rows) < Len(driver_data[1].rows)

RECURSIVE SumTo(_, _, _)
SumTo(rows, col, n) == IF n = 0 THEN 0 ELSE SumTo(rows, col, n - 1) + rows[n][col].v

\* The sum of column col over the rows of df, 0 when df has no such column.
RefSum(df, col) == IF col \in df.cols THEN SumTo(df.rows, col, Len(df.rows)) ELSE 0

\* C10: the statement is the reference summary of the rows shown: each sum is
\* the sum of its column (0 for a missing column), gross fare is base fare +
\* wait time + stops + tolls + tips, net deposit is the total_paid sum, the trip
\* count is the number of rows; for no rows every figure is 0.
C10_StatementIsReferenceSummary ==
    page.statement # None =>
       LET st == page.statement[1]
           df == page.shown[1]
       IN /\ st.sum_base = RefSum(df, "base_fare")
          /\ st.sum_wait = RefSum(df, "wait_time_pay")
          /\ st.sum_stops = RefSum(df, "stops_amount")
          /\ st.sum_tolls = RefSum(df, "tolls")
          /\ st.sum_tips = RefSum(df, "tips")
          /\ st.sum_comm = RefSum(df, "coop_commission")
          /\ st.sum_cash = RefSum(df, "cash_collected")
          /\ st.gross_fare = RefSum(df, "base_fare") + RefSum(df, "wait_time_pay")
                             + RefSum(df, "stops_amount") + RefSum(df, "tolls")
                             + RefSum(df, "tips")
          /\ st.net_deposit = RefSum(df, "total_paid")
          /\ st.trips = Len(df.rows)
          /\ df.rows = <<>> => \A k \in DOMAIN st : st[k] = 0

\* A statement over no rows: a search that matches none of the driver's trips.
C10_Witness ==
    /\ page.statement # None
    /\ page.shown[1].rows = <<>>
    /\ page.statement[1].trips = 0

\* C11: an Authenticated session stays Authenticated with the scope captured at
\* login: every step taken while logged in either is the Log Out button or
\* leaves logged_in, the stored scope and the ID it was opened with as they
\* were, whatever happens to the record store; and a rerun with the widgets as
\* they are stores the scope it was given.
C11_SessionKeepsLoginScope ==
    /\ [][logged_in => \/ logged_in' /\ driver_data' = driver_data
                                     /\ auth_id' = auth_id
                       \/ Logout]_vars
    /\ [](logged_in =>
            /\ driver_data # None
            /\ dashboard(driver_data[1], date_range, trip_search).stored
                 = driver_data[1])

\* C11: a logged-in session whose scope holds a record that is no longer in the
\* (non-empty) record store, with a date range picked and rows on the page.
C11_Witness ==
    /\ logged_in
    /\ table # EmptyFrame
    /\ \E i \in 1..Len(driver_data[1].rows) :
          \A j \in 1..Len(table.rows) : table.rows[j] # driver_data[1].rows[i]
    /\ Len(date_range) = 2
    /\ page.shown # None
    /\ page.shown[1].rows # <<>>

====
